---- MODULE Spec2Model ----
(***************************************************************************)
(* Model of the azure_app HTTP service (src/main.go): the telemetry        *)
(* pipeline made of parseInstrumentationKey, initTelemetry, the request    *)
(* middleware and the instrumented /hello and /config handlers.            *)
(*                                                                         *)
(* src/main.go holds two programs one after the other (lines 1-197 and     *)
(* lines 199-368).  They share parseInstrumentationKey, initTelemetry, the *)
(* middleware and the /hello handler; the first one has an Environment     *)
(* setting and registers /config only in "development", the second one     *)
(* always registers /config.  The variable build says which one runs.      *)
(*                                                                         *)
(* Go strings are modelled as sequences of one-character strings, so that  *)
(* splitting, prefix tests, slicing and formatting are computed.           *)
(***************************************************************************)
EXTENDS Integers, Sequences, FiniteSets, TLC

VARIABLES
    build,            \* 1: the program of lines 1-197, 2: the one of lines 199-368
    pc,               \* position of main()
    config,           \* the package-level var config
    telemetryClient,  \* the package-level var telemetryClient
    log,              \* the lines written through package log, oldest first
    configRoute,      \* whether GET /api/v1/config is registered on the router
    now,              \* the monotonic clock, in ticks of 10ms
    lost,             \* whether the transport has failed to deliver an item
    reqs,             \* per request slot: the request, its locals and its response
    tracked           \* per request slot: the items its goroutine handed to
                      \* telemetryClient.Track, in order

vars == <<build, pc, config, telemetryClient, log, configRoute, now, lost,
          reqs, tracked>>

----------------------------------------------------------------------------
(* Bounds of the model *)

\* longest instrumentation key drawn for the wide descriptors
MaxKeyLen == 9
\* most ';'-separated segments of a wide descriptor
MaxSegs == 2
\* request slots served concurrently
MaxReqs == 2
\* last tick of the clock
MaxTime == 1

----------------------------------------------------------------------------
(* String literals of the source *)

KeyPrefix ==
    <<"I", "n", "s", "t", "r", "u", "m", "e", "n", "t", "a", "t", "i", "o", "n",
      "K", "e", "y", "=">>

WarnNoConnectionString ==
    <<"W", "a", "r", "n", "i", "n", "g", ":", " ", "A", "z", "u", "r", "e", " ",
      "c", "o", "n", "n", "e", "c", "t", "i", "o", "n", " ", "s", "t", "r", "i",
      "n", "g", " ", "n", "o", " ", "c", "o", "n", "f", "i", "g", "u", "r", "a",
      "d", "o", ",", " ", "t", "e", "l", "e", "m", "e", "t", "r", "í", "a", " ",
      "n", "o", " ", "s", "e", " ", "i", "n", "i", "c", "i", "a", "l", "i", "z",
      "a", "r", "á">>

WarnNoKey ==
    <<"W", "a", "r", "n", "i", "n", "g", ":", " ", "N", "o", " ", "s", "e", " ",
      "p", "u", "d", "o", " ", "e", "x", "t", "r", "a", "e", "r", " ", "I", "n",
      "s", "t", "r", "u", "m", "e", "n", "t", "a", "t", "i", "o", "n", "K", "e",
      "y", " ", "d", "e", "l", " ", "c", "o", "n", "n", "e", "c", "t", "i", "o",
      "n", " ", "s", "t", "r", "i", "n", "g">>

\* the format string of line 71, up to its %s
InfoConfigured ==
    <<"A", "p", "p", "l", "i", "c", "a", "t", "i", "o", "n", " ", "I", "n", "s",
      "i", "g", "h", "t", "s", " ", "c", "o", "n", "f", "i", "g", "u", "r", "a",
      "d", "o", " ", "c", "o", "n", " ", "I", "n", "s", "t", "r", "u", "m", "e",
      "n", "t", "a", "t", "i", "o", "n", "K", "e", "y", ":", " ">>

Ellipsis == <<".", ".", ".">>

\* the format string of line 89, up to its first %s
ConfigLoaded ==
    <<"C", "o", "n", "f", "i", "g", "u", "r", "a", "c", "i", "ó", "n", " ", "c",
      "a", "r", "g", "a", "d", "a", ":", " ">>

ReadError ==
    <<"E", "r", "r", "o", "r", " ", "l", "e", "y", "e", "n", "d", "o", " ", "a",
      "r", "c", "h", "i", "v", "o", " ", "d", "e", " ", "c", "o", "n", "f", "i",
      "g", "u", "r", "a", "c", "i", "ó", "n", ":", " ">>

ServerStartedHead ==
    <<"S", "e", "r", "v", "i", "d", "o", "r", " ", "i", "n", "i", "c", "i", "a",
      "d", "o", " ", "e", "n", " ">>

ServerStartedTail ==
    <<" ", "c", "o", "n", " ", "A", "p", "p", "l", "i", "c", "a", "t", "i", "o",
      "n", " ", "I", "n", "s", "i", "g", "h", "t", "s", " ", "h", "a", "b", "i",
      "l", "i", "t", "a", "d", "o">>

EndpointUrl == "https://dc.applicationinsights.azure.com/v2/track"

\* number of key characters the info line of initTelemetry shows
KeyLogLen == 8

----------------------------------------------------------------------------
(* Inputs *)

Take(s, n) == SubSeq(s, 1, n)

SampleKey == <<"A", "B", "C", "D", "E", "F", "G", "H", "1", "2", "3", "4", "5">>

AppName == <<"a", "z", "u", "r", "e", "_", "a", "p", "p">>

AppVersion == <<"1", ".", "0", ".", "0">>

\* the host and port the server binds: fixed in the second program, the
\* settings server.host and server.port in the first one
ServerHost == <<"0", ".", "0", ".", "0", ".", "0">>

ServerPort == 8080

ServerMode == "release"

Environments == {"development", "production"}

RECURSIVE Join(_)
\* the segments joined with ';'
Join(segs) ==
    IF Len(segs) = 0 THEN <<>>
    ELSE IF Len(segs) = 1 THEN segs[1]
    ELSE segs[1] \o <<";">> \o Join(Tail(segs))

\* keys: the empty one, a one-character one, and those around KeyLogLen
Keys == {Take(SampleKey, n) : n \in {0, 1} \cup (KeyLogLen - 1 .. MaxKeyLen)}

\* segments: key segments, unrelated pairs, the empty segment, segments that
\* contain the prefix at a later offset, and a remainder with blanks and '='
Segments ==
    {KeyPrefix \o k : k \in Keys}
      \cup {<<"A", "=", "1">>, <<>>,
            <<"x">> \o KeyPrefix \o <<"Z", "Z">>,
            KeyPrefix \o <<" ", "k", "=", "v", " ", "1", "2", "3", "4">>}

SegmentLists == UNION {[1..n -> Segments] : n \in 0..MaxSegs}

\* the descriptors of SpecKey
WideDescriptors == {Join(segs) : segs \in SegmentLists}

\* the descriptors of Spec
Descriptors ==
    { <<>>,
      <<"F", "o", "o", "=", "b", "a", "r">>,
      KeyPrefix \o Take(SampleKey, 3),
      <<"A", "=", "1", ";">> \o KeyPrefix \o SampleKey \o <<";", "B", "=", "2">> }

----------------------------------------------------------------------------
(* strings package *)

RECURSIVE SplitFrom(_, _, _)
SplitFrom(s, i, cur) ==
    IF i > Len(s) THEN <<cur>>
    ELSE IF s[i] = ";" THEN <<cur>> \o SplitFrom(s, i + 1, <<>>)
    ELSE SplitFrom(s, i + 1, Append(cur, s[i]))

\* strings.Split(s, ";"): never empty, Split("") is one empty segment
Split(s) == SplitFrom(s, 1, <<>>)

HasPrefix(s, prefix) ==
    /\ Len(s) >= Len(prefix)
    /\ SubSeq(s, 1, Len(prefix)) = prefix

TrimPrefix(s, prefix) ==
    IF HasPrefix(s, prefix) THEN SubSeq(s, Len(prefix) + 1, Len(s)) ELSE s

\* whether sub occurs in s (strings.Contains)
Contains(s, sub) ==
    \E i \in 1..(Len(s) - Len(sub) + 1) : SubSeq(s, i, i + Len(sub) - 1) = sub

----------------------------------------------------------------------------
(* parseInstrumentationKey *)

RECURSIVE ParseLoopContains(_, _)
\* ParseLoop with strings.Contains in the place of strings.HasPrefix
ParseLoopContains(parts, i) ==
    IF i > Len(parts) THEN <<>>
    ELSE IF Contains(parts[i], KeyPrefix) THEN TrimPrefix(parts[i], KeyPrefix)
    ELSE ParseLoopContains(parts, i + 1)

RECURSIVE ParseLoop(_, _)
\* the for loop over parts, from index i on
ParseLoop(parts, i) ==
    IF i > Len(parts) THEN <<>>
    ELSE IF HasPrefix(parts[i], KeyPrefix) THEN TrimPrefix(parts[i], KeyPrefix)
    ELSE ParseLoop(parts, i + 1)

parseInstrumentationKey(connectionString) ==
    ParseLoop(Split(connectionString), 1)

----------------------------------------------------------------------------
(* fmt and slicing *)

Digit(d) == <<"0", "1", "2", "3", "4", "5", "6", "7", "8", "9">>[d + 1]

RECURSIVE Itoa(_)
\* fmt.Sprintf("%d", n) for n >= 0
Itoa(n) == IF n < 10 THEN <<Digit(n)>> ELSE Append(Itoa(n \div 10), Digit(n % 10))

\* fmt.Sprintf("%s:%d", host, port)
Address == ServerHost \o <<":">> \o Itoa(ServerPort)

\* s[:n] panics when n > len(s)
SlicePanics(s, n) == n > Len(s)

SliceTo(s, n) == SubSeq(s, 1, n)

----------------------------------------------------------------------------
(* appinsights *)

NilClient == [nil |-> TRUE]

\* appinsights.NewTelemetryConfiguration(ikey): the library's default endpoint
NewTelemetryConfiguration(ikey) ==
    [InstrumentationKey |-> ikey,
     EndpointUrl |-> "https://dc.services.visualstudio.com/v2/track"]

NewTelemetryClientFromConfig(cfg) ==
    [nil |-> FALSE,
     InstrumentationKey |-> cfg.InstrumentationKey,
     EndpointUrl |-> cfg.EndpointUrl]

\* telemetryClient != nil
Enabled == ~telemetryClient.nil

\* telemetryClient.Track(item) called by the goroutine of request slot r: the
\* item is handed to the client once, after those the goroutine handed before.
\* Track returns nothing: whether the transport delivers the item (ok) shows
\* only in lost.
Track(item, r, ok) ==
    /\ tracked' = [tracked EXCEPT ![r] = Append(@, item)]
    /\ lost' = (lost \/ ~ok)

----------------------------------------------------------------------------
(* Startup: main up to r.Run *)

Init ==
    /\ build \in {1, 2}
    /\ pc = "loadConfig"
    /\ config = [loaded |-> FALSE]
    /\ telemetryClient = NilClient
    /\ log = <<>>
    /\ configRoute = FALSE
    /\ now = 0
    /\ lost = FALSE
    /\ reqs = [r \in 1..MaxReqs |-> [pc |-> "idle"]]
    /\ tracked = [r \in 1..MaxReqs |-> <<>>]

\* the settings viper.Unmarshal yields for a connection string cs
Settings(cs, env) ==
    IF build = 1
    THEN [loaded |-> TRUE, Host |-> ServerHost, Port |-> ServerPort,
          Mode |-> ServerMode, Name |-> AppName, Version |-> AppVersion,
          Environment |-> env, Debug |-> FALSE, ConnectionString |-> cs]
    ELSE [loaded |-> TRUE, Name |-> AppName, Version |-> AppVersion,
          ConnectionString |-> cs]

\* loadConfig with the connection string drawn from D
LoadConfigFrom(D) ==
    /\ pc = "loadConfig"
    /\ \E cs \in D, env \in Environments :
          /\ build = 2 => env = "development"
          /\ config' = Settings(cs, env)
    /\ log' = Append(log, ConfigLoaded \o AppName \o <<" ", "v">> \o AppVersion)
    /\ pc' = "initTelemetry"
    /\ UNCHANGED <<build, telemetryClient, configRoute, now, lost, reqs, tracked>>

LoadConfig == LoadConfigFrom(Descriptors)

LoadConfigWide == LoadConfigFrom(WideDescriptors)

\* loadConfig when the file cannot be read: log.Fatalf ends the process
LoadConfigFatal ==
    /\ pc = "loadConfig"
    /\ log' = Append(log, ReadError)
    /\ pc' = "exited"
    /\ UNCHANGED <<build, config, telemetryClient, configRoute, now, lost,
                   reqs, tracked>>

\* InitTelemetryResult without the check of lines 60-63 for an empty key
InitTelemetryResultNoKeyCheck(cs) ==
    IF cs = <<>>
    THEN <<telemetryClient, Append(log, WarnNoConnectionString), "setup">>
    ELSE LET instrumentationKey == parseInstrumentationKey(cs)
             telemetryConfig ==
                 [NewTelemetryConfiguration(instrumentationKey)
                     EXCEPT !.EndpointUrl = EndpointUrl]
             client == NewTelemetryClientFromConfig(telemetryConfig)
         IN  IF SlicePanics(instrumentationKey, KeyLogLen)
             THEN <<client, log, "panicked">>
             ELSE <<client,
                    Append(log, InfoConfigured
                                  \o SliceTo(instrumentationKey, KeyLogLen)
                                  \o Ellipsis),
                    "setup">>

\* what initTelemetry leaves in <<telemetryClient, log, pc>> for connection
\* string cs
InitTelemetryResult(cs) ==
    IF cs = <<>>
    THEN <<telemetryClient, Append(log, WarnNoConnectionString), "setup">>
    ELSE LET instrumentationKey == parseInstrumentationKey(cs)
             telemetryConfig ==
                 [NewTelemetryConfiguration(instrumentationKey)
                     EXCEPT !.EndpointUrl = EndpointUrl]
             client == NewTelemetryClientFromConfig(telemetryConfig)
         IN  IF instrumentationKey = <<>>
             THEN <<telemetryClient, Append(log, WarnNoKey), "setup">>
             ELSE IF SlicePanics(instrumentationKey, KeyLogLen)
             THEN <<client, log, "panicked">>
             ELSE <<client,
                    Append(log, InfoConfigured
                                  \o SliceTo(instrumentationKey, KeyLogLen)
                                  \o Ellipsis),
                    "setup">>

InitTelemetry ==
    /\ pc = "initTelemetry"
    /\ LET res == InitTelemetryResult(config.ConnectionString)
       IN  /\ telemetryClient' = res[1]
           /\ log' = res[2]
           /\ pc' = res[3]
    /\ UNCHANGED <<build, config, configRoute, now, lost, reqs, tracked>>

\* whether main registers GET /api/v1/config
RegistersConfig ==
    IF build = 1 THEN config.Environment = "development" ELSE TRUE

\* gin.Default, r.Use, the route registrations, and r.Run listening
StartServer ==
    /\ pc = "setup"
    /\ configRoute' = RegistersConfig
    /\ log' = Append(log, ServerStartedHead \o Address \o ServerStartedTail)
    /\ pc' = "listening"
    /\ UNCHANGED <<build, config, telemetryClient, now, lost, reqs, tracked>>

\* r.Run returns at once when the address cannot be bound, and main returns
StartServerFails ==
    /\ pc = "setup"
    /\ configRoute' = RegistersConfig
    /\ log' = Append(log, ServerStartedHead \o Address \o ServerStartedTail)
    /\ pc' = "exited"
    /\ UNCHANGED <<build, config, telemetryClient, now, lost, reqs, tracked>>

----------------------------------------------------------------------------
(* Requests.  One goroutine per request; a slot r holds one request. *)

HelloPath == "/api/v1/hello"

ConfigPath == "/api/v1/config"

\* the requests clients send
RequestKinds ==
    { [method |-> "GET",  url |-> HelloPath,  userAgent |-> "curl/8.0"],
      [method |-> "GET",  url |-> ConfigPath, userAgent |-> "Mozilla/5.0"],
      [method |-> "GET",  url |-> "/missing", userAgent |-> "curl/8.0"],
      [method |-> "POST", url |-> HelloPath,  userAgent |-> "Mozilla/5.0"] }

\* time.Sleep(10 * time.Millisecond), in ticks
SleepTicks == 1

\* c.FullPath(): the pattern of the matched route, "" when none matches
FullPath(method, url) ==
    IF method = "GET" /\ url = HelloPath THEN HelloPath
    ELSE IF method = "GET" /\ url = ConfigPath /\ configRoute THEN ConfigPath
    ELSE ""

\* where c.Next() goes
Dispatch(method, url) ==
    IF FullPath(method, url) = HelloPath THEN "hello"
    ELSE IF FullPath(method, url) = ConfigPath THEN "config"
    ELSE "noroute"

Req(r) == reqs[r]

\* the clock moves on, at any moment
Tick ==
    /\ pc = "listening"
    /\ now < MaxTime
    /\ now' = now + 1
    /\ UNCHANGED <<build, pc, config, telemetryClient, log, configRoute,
                   lost, reqs, tracked>>

\* the middleware up to c.Next(): start := time.Now().  Slots are taken in
\* order.
MiddlewareEnter(r) ==
    /\ pc = "listening"
    /\ Req(r).pc = "idle"
    /\ r > 1 => Req(r - 1).pc # "idle"
    /\ \E k \in RequestKinds :
          reqs' = [reqs EXCEPT ![r] =
                      [pc |-> Dispatch(k.method, k.url),
                       method |-> k.method, url |-> k.url,
                       userAgent |-> k.userAgent,
                       fullPath |-> FullPath(k.method, k.url),
                       start |-> now,
                       written |-> FALSE]]
    /\ UNCHANGED <<build, pc, config, telemetryClient, log, configRoute, now,
                   lost, tracked>>

\* appinsights.NewEventTelemetry("hello_endpoint_called") and its properties
HelloEvent ==
    [type |-> "Event", Name |-> "hello_endpoint_called",
     Properties |->
        IF build = 1
        THEN [app_name |-> config.Name, version |-> config.Version,
              environment |-> config.Environment]
        ELSE [app_name |-> config.Name, version |-> config.Version]]

\* the /hello handler up to time.Sleep: start := time.Now() and the event
HelloStart(r) ==
    /\ pc = "listening"
    /\ Req(r).pc = "hello"
    /\ reqs' = [reqs EXCEPT ![r] = [@ EXCEPT !.pc = "hello_sleep"]
                                      @@ [helloStart |-> now]]
    /\ IF Enabled
       THEN \E ok \in BOOLEAN : Track(HelloEvent, r, ok)
       ELSE UNCHANGED <<tracked, lost>>
    /\ UNCHANGED <<build, pc, config, telemetryClient, log, configRoute, now>>

\* the gin.H of the /hello handler
HelloBody ==
    IF build = 1
    THEN [message |-> "Ok", app_name |-> config.Name, version |-> config.Version,
          environment |-> config.Environment, timestamp |-> now]
    ELSE [message |-> "Ok", app_name |-> config.Name, version |-> config.Version,
          timestamp |-> now]

\* HelloRespond answering 500 once a send has failed
HelloRespondFailing(r) ==
    /\ pc = "listening"
    /\ Req(r).pc = "hello_sleep"
    /\ now >= Req(r).helloStart + SleepTicks
    /\ reqs' = [reqs EXCEPT ![r] =
                  [@ EXCEPT !.pc = "hello_metric", !.written = TRUE]
                    @@ [status |-> IF lost THEN 500 ELSE 200,
                        body |-> HelloBody]]
    /\ UNCHANGED <<build, pc, config, telemetryClient, log, configRoute, now,
                   lost, tracked>>

\* the /hello handler once time.Sleep has returned: c.JSON(200, response)
HelloRespond(r) ==
    /\ pc = "listening"
    /\ Req(r).pc = "hello_sleep"
    /\ now >= Req(r).helloStart + SleepTicks
    /\ reqs' = [reqs EXCEPT ![r] =
                  [@ EXCEPT !.pc = "hello_metric", !.written = TRUE]
                    @@ [status |-> 200, body |-> HelloBody]]
    /\ UNCHANGED <<build, pc, config, telemetryClient, log, configRoute, now,
                   lost, tracked>>

\* HelloDuration with the operands of the subtraction exchanged
HelloDurationReversed(r) == Req(r).helloStart - now

\* time.Since(start) in the /hello handler
HelloDuration(r) == now - Req(r).helloStart

\* appinsights.NewMetricTelemetry("hello_response_time", duration.Seconds())
HelloMetric(r) ==
    [type |-> "Metric", Name |-> "hello_response_time",
     Value |-> HelloDuration(r),
     Properties |-> [endpoint |-> "/hello"]]

\* HelloFinish without the nil check of line 155
HelloFinishUngated(r) ==
    /\ pc = "listening"
    /\ Req(r).pc = "hello_metric"
    /\ reqs' = [reqs EXCEPT ![r].pc = "after"]
    /\ \E ok \in BOOLEAN : Track(HelloMetric(r), r, ok)
    /\ UNCHANGED <<build, pc, config, telemetryClient, log, configRoute, now>>

\* the end of the /hello handler: the metric
HelloFinish(r) ==
    /\ pc = "listening"
    /\ Req(r).pc = "hello_metric"
    /\ reqs' = [reqs EXCEPT ![r].pc = "after"]
    /\ IF Enabled
       THEN \E ok \in BOOLEAN : Track(HelloMetric(r), r, ok)
       ELSE UNCHANGED <<tracked, lost>>
    /\ UNCHANGED <<build, pc, config, telemetryClient, log, configRoute, now>>

ConfigEvent ==
    [type |-> "Event", Name |-> "config_endpoint_accessed",
     Properties |-> [debug_mode |-> "true"]]

\* the gin.H of the /config handler
ConfigBody ==
    LET telemetry ==
            [enabled |-> config.ConnectionString # <<>>,
             instrumentation_key |->
                 parseInstrumentationKey(config.ConnectionString)]
    IN  IF build = 1
        THEN [server |-> [host |-> config.Host, port |-> config.Port,
                          mode |-> config.Mode],
              app |-> [name |-> config.Name, version |-> config.Version,
                       environment |-> config.Environment,
                       debug |-> config.Debug],
              telemetry |-> telemetry]
        ELSE [app |-> [name |-> config.Name, version |-> config.Version],
              telemetry |-> telemetry]

\* the /config handler: the event, then c.JSON(200, response)
ConfigHandler(r) ==
    /\ pc = "listening"
    /\ Req(r).pc = "config"
    /\ reqs' = [reqs EXCEPT ![r] =
                  [@ EXCEPT !.pc = "after", !.written = TRUE]
                    @@ [status |-> 200, body |-> ConfigBody]]
    /\ IF Enabled
       THEN \E ok \in BOOLEAN : Track(ConfigEvent, r, ok)
       ELSE UNCHANGED <<tracked, lost>>
    /\ UNCHANGED <<build, pc, config, telemetryClient, log, configRoute, now>>

\* gin's answer when no route matches
NoRoute(r) ==
    /\ pc = "listening"
    /\ Req(r).pc = "noroute"
    /\ reqs' = [reqs EXCEPT ![r] =
                  [@ EXCEPT !.pc = "after", !.written = TRUE]
                    @@ [status |-> 404, body |-> "404 page not found"]]
    /\ UNCHANGED <<build, pc, config, telemetryClient, log, configRoute, now,
                   lost, tracked>>

\* MiddlewareDuration with start shared by all requests (that of slot 1)
MiddlewareDurationShared(r) == now - Req(1).start

\* MiddlewareDuration taken before c.Next()
MiddlewareDurationEarly(r) == 0

\* time.Since(start) in the middleware
MiddlewareDuration(r) == now - Req(r).start

\* appinsights.NewRequestTelemetry(...) and its properties
RequestTelemetry(r) ==
    [type |-> "Request", Method |-> Req(r).method, Url |-> Req(r).url,
     Duration |-> MiddlewareDuration(r),
     ResponseCode |-> Itoa(Req(r).status),
     Properties |-> [route |-> Req(r).fullPath,
                     user_agent |-> Req(r).userAgent,
                     app_version |-> config.Version]]

\* MiddlewareAfter giving up the client once the request is tracked
MiddlewareAfterDroppingClient(r) ==
    /\ pc = "listening"
    /\ Req(r).pc = "after"
    /\ reqs' = [reqs EXCEPT ![r].pc = "done"]
    /\ IF Enabled
       THEN \E ok \in BOOLEAN : Track(RequestTelemetry(r), r, ok)
       ELSE UNCHANGED <<tracked, lost>>
    /\ telemetryClient' = NilClient
    /\ UNCHANGED <<build, pc, config, log, configRoute, now>>

\* the middleware after c.Next() has returned
MiddlewareAfter(r) ==
    /\ pc = "listening"
    /\ Req(r).pc = "after"
    /\ reqs' = [reqs EXCEPT ![r].pc = "done"]
    /\ IF Enabled
       THEN \E ok \in BOOLEAN : Track(RequestTelemetry(r), r, ok)
       ELSE UNCHANGED <<tracked, lost>>
    /\ UNCHANGED <<build, pc, config, telemetryClient, log, configRoute, now>>

----------------------------------------------------------------------------
(* Specifications *)

Serve(r) ==
    \/ MiddlewareEnter(r)
    \/ HelloStart(r)
    \/ HelloRespond(r)
    \/ HelloFinish(r)
    \/ ConfigHandler(r)
    \/ NoRoute(r)
    \/ MiddlewareAfter(r)

\* the whole program, MaxReqs requests in flight, a few connection strings
Next ==
    \/ LoadConfig
    \/ LoadConfigFatal
    \/ InitTelemetry
    \/ StartServer
    \/ StartServerFails
    \/ Tick
    \/ \E r \in 1..MaxReqs : Serve(r)

Spec == Init /\ [][Next]_vars

\* the whole program, one request, the wide set of connection strings
NextKey ==
    \/ LoadConfigWide
    \/ LoadConfigFatal
    \/ InitTelemetry
    \/ StartServer
    \/ StartServerFails
    \/ Tick
    \/ Serve(1)

SpecKey == Init /\ [][NextKey]_vars

----------------------------------------------------------------------------
(* Claims about startup, under SpecKey *)

\* initTelemetry has run
Initialised == config.loaded /\ pc \in {"setup", "listening", "exited", "panicked"}

\* C1: for every connection string initTelemetry ends without a crash, so that
\* startup goes on towards listening; its worst outcome is a nil client.
C1_InitTelemetryNeverFatal == pc # "panicked"

\* the first position of a ';' in s at or after i, Len(s) + 1 when there is none
SegmentEnd(s, i) ==
    LET ends == {j \in i..Len(s) : s[j] = ";"} \cup {Len(s) + 1}
    IN  CHOOSE j \in ends : \A e \in ends : j <= e

\* the positions where a segment of s starts with KeyPrefix
KeyStarts(s) ==
    {i \in 1..Len(s) :
        /\ i = 1 \/ s[i - 1] = ";"
        /\ i + Len(KeyPrefix) - 1 <= Len(s)
        /\ \A k \in 1..Len(KeyPrefix) : s[i + k - 1] = KeyPrefix[k]}

\* the key of s read off the positions of s: what follows KeyPrefix in the
\* leftmost segment that starts with it, up to the segment's end
KeyOf(s) ==
    IF KeyStarts(s) = {} THEN <<>>
    ELSE LET i == CHOOSE a \in KeyStarts(s) : \A e \in KeyStarts(s) : a <= e
         IN  SubSeq(s, i + Len(KeyPrefix), SegmentEnd(s, i) - 1)

\* C2: after initTelemetry the client is nil iff the connection string is
\* empty or parseInstrumentationKey returns "" for it; otherwise the client is
\* bound to the key parseInstrumentationKey returns and to the fixed endpoint.
C2_ClientIffKey ==
    Initialised =>
        LET cs == config.ConnectionString
            key == parseInstrumentationKey(cs)
        IN  /\ telemetryClient.nil <=> (cs = <<>> \/ key = <<>>)
            /\ ~telemetryClient.nil =>
                  /\ telemetryClient.InstrumentationKey = key
                  /\ telemetryClient.EndpointUrl = EndpointUrl

\* an enabled client, bound to a key that follows other segments, is serving
C2_Witness ==
    /\ pc = "listening"
    /\ config.ConnectionString
          = <<"A", "=", "1", ";">> \o KeyPrefix \o Take(SampleKey, KeyLogLen)
    /\ ~telemetryClient.nil
    /\ telemetryClient.InstrumentationKey = Take(SampleKey, KeyLogLen)

\* C3: parseInstrumentationKey returns, verbatim, what follows
\* "InstrumentationKey=" in the first ';'-separated segment that starts with
\* it, wherever that segment is, and "" when no segment starts with it; empty
\* segments and a trailing ';' do not change the result.  Stated of the
\* connection string initTelemetry is about to parse, and of the key the
\* /config handler has just put in its response.
C3_KeyOfFirstMatchingSegment ==
    LET cs == config.ConnectionString
    IN  /\ pc = "initTelemetry" =>
              /\ parseInstrumentationKey(cs) = KeyOf(cs)
              /\ parseInstrumentationKey(cs \o <<";">>) = KeyOf(cs)
              /\ parseInstrumentationKey(<<";">> \o cs) = KeyOf(cs)
              /\ parseInstrumentationKey(<<";", ";">> \o cs \o <<";", ";">>)
                    = KeyOf(cs)
        /\ \A r \in 1..MaxReqs :
              (Req(r).pc = "after" /\ Req(r).fullPath = ConfigPath)
              => Req(r).body.telemetry.instrumentation_key = KeyOf(cs)

\* /config has answered with the key of the second segment, the first segment
\* holding the prefix at a later offset only
C3_Witness ==
    /\ config.loaded
    /\ config.ConnectionString
          = <<"x">> \o KeyPrefix \o <<"Z", "Z", ";">> \o KeyPrefix
              \o <<" ", "k", "=", "v", " ", "1", "2", "3", "4">>
    /\ Req(1).pc = "after"
    /\ Req(1).fullPath = ConfigPath
    /\ Req(1).body.telemetry.instrumentation_key
          = <<" ", "k", "=", "v", " ", "1", "2", "3", "4">>

\* the lines initTelemetry has written: main logs one line before it runs
InitTelemetryLines ==
    IF Initialised /\ Len(log) >= 2 THEN {log[2]} ELSE {}

\* the first n characters of s, all of s when it is shorter
FirstChars(s, n) == SubSeq(s, 1, IF Len(s) < n THEN Len(s) ELSE n)

\* C10: for every connection string that yields an enabled client, the info
\* line initTelemetry logs holds the first 8 characters of the key and "...",
\* and no line it writes contains the full key or the connection string, for
\* keys of every length.  (Where initTelemetry has crashed before logging, as
\* in C1, there is no line to judge.)
C10_LogShowsOnlyKeyPrefix ==
    (Initialised /\ ~telemetryClient.nil) =>
        LET cs == config.ConnectionString
            key == telemetryClient.InstrumentationKey
        IN  /\ pc # "panicked" => InitTelemetryLines # {}
            /\ \A line \in InitTelemetryLines :
                  /\ line = InfoConfigured \o FirstChars(key, KeyLogLen) \o Ellipsis
                  /\ ~Contains(line, key)
                  /\ ~Contains(line, cs)

----------------------------------------------------------------------------
(* Claims about requests, under Spec *)

Slots == 1..MaxReqs

\* how many items of the given type slot r has handed to the client
Count(r, type) ==
    Cardinality({i \in 1..Len(tracked[r]) : tracked[r][i].type = type})

Done(r) == Req(r).pc = "done"

\* C4: the client handle is written by initTelemetry only, at most once and
\* before the server listens; once the server listens it stays listening and
\* no step changes the handle, whatever the requests do.
C4_HandleWrittenOnceBeforeListening ==
    [][/\ telemetryClient' # telemetryClient
            => (pc = "initTelemetry" /\ pc' # "initTelemetry")
       /\ pc \notin {"loadConfig", "initTelemetry"}
            => pc' \notin {"loadConfig", "initTelemetry"}
       /\ pc = "listening"
            => (pc' = "listening" /\ telemetryClient' = telemetryClient)]_vars

\* an enabled client after one request is done, another one in flight
C4_Witness ==
    /\ pc = "listening"
    /\ ~telemetryClient.nil
    /\ \E r, q \in Slots : Done(r) /\ Req(q).pc \in {"hello_sleep", "after"}

\* C5: with a nil client no request, to any route, hands anything to the
\* client: the middleware and both handlers skip every Track call.
C5_DisabledTracksNothing ==
    telemetryClient.nil => (lost = FALSE /\ \A r \in Slots : tracked[r] = <<>>)

\* a nil client has served /hello and an unmatched route
C5_Witness ==
    /\ pc = "listening"
    /\ telemetryClient.nil
    /\ \E r, q \in Slots :
          /\ Done(r) /\ Req(r).fullPath = HelloPath
          /\ Done(q) /\ Req(q).fullPath = ""

\* every duration and value handed to the client by slot r is >= 0
NonNegative(r) ==
    \A i \in 1..Len(tracked[r]) :
        /\ tracked[r][i].type = "Request" => tracked[r][i].Duration >= 0
        /\ tracked[r][i].type = "Metric" => tracked[r][i].Value >= 0

\* C6 as stated: with an enabled client a request to an instrumented endpoint
\* produces exactly one Request Record, one Event Record and one Metric Record,
\* each with a non-negative duration or value.
C6_OneRequestEventMetric ==
    ~telemetryClient.nil =>
        \A r \in Slots :
            (Done(r) /\ Req(r).fullPath \in {HelloPath, ConfigPath})
            => /\ Count(r, "Request") = 1
               /\ Count(r, "Event") = 1
               /\ Count(r, "Metric") = 1
               /\ NonNegative(r)

\* C6 amended: with an enabled client a request to /hello produces exactly one
\* Request, one Event and one Metric Record, a request to /config exactly one
\* Request and one Event Record and no Metric Record; each is handed to the
\* client once and its duration or value is >= 0.
C6_OneRequestEventAndHelloMetric ==
    ~telemetryClient.nil =>
        \A r \in Slots :
            /\ NonNegative(r)
            /\ Count(r, "Request") <= 1
            /\ Count(r, "Event") <= 1
            /\ Count(r, "Metric") <= 1
            /\ (Done(r) /\ Req(r).fullPath = HelloPath)
               => /\ Count(r, "Request") = 1
                  /\ Count(r, "Event") = 1
                  /\ Count(r, "Metric") = 1
                  /\ Len(tracked[r]) = 3
            /\ (Done(r) /\ Req(r).fullPath = ConfigPath)
               => /\ Count(r, "Request") = 1
                  /\ Count(r, "Event") = 1
                  /\ Count(r, "Metric") = 0
                  /\ Len(tracked[r]) = 2

\* an enabled client has served /hello and /config
C6_Witness ==
    /\ ~telemetryClient.nil
    /\ \E r, q \in Slots :
          /\ Done(r) /\ Req(r).fullPath = HelloPath
          /\ Done(q) /\ Req(q).fullPath = ConfigPath

\* whether the router has a route for the request of slot r, from the
\* registrations of main
MatchesHello(r) == Req(r).method = "GET" /\ Req(r).url = HelloPath

MatchesConfig(r) ==
    /\ Req(r).method = "GET"
    /\ Req(r).url = ConfigPath
    /\ build = 1 => config.Environment = "development"

\* the response of slot r is the one its request and the settings call for
ResponseAsConfigured(r) ==
    IF MatchesHello(r)
    THEN /\ Req(r).status = 200
         /\ DOMAIN Req(r).body
               = {"message", "app_name", "version", "timestamp"}
                   \cup (IF build = 1 THEN {"environment"} ELSE {})
         /\ Req(r).body.message = "Ok"
         /\ Req(r).body.app_name = AppName
         /\ Req(r).body.version = AppVersion
         /\ build = 1 => Req(r).body.environment = config.Environment
    ELSE IF MatchesConfig(r)
    THEN /\ Req(r).status = 200
         /\ Req(r).body.app.name = AppName
         /\ Req(r).body.app.version = AppVersion
         /\ Req(r).body.telemetry.enabled = (config.ConnectionString # <<>>)
         /\ Req(r).body.telemetry.instrumentation_key
               = KeyOf(config.ConnectionString)
    ELSE /\ Req(r).status = 404
         /\ Req(r).body = "404 page not found"

\* C7: the status and body of a response are those the request and the
\* settings call for, the same with a nil client and with an enabled client
\* whose sends succeed or fail (the timestamp of /hello apart); a failed send
\* is not retried.
C7_ResponseIndependentOfTelemetry ==
    \A r \in Slots :
        /\ Req(r).pc # "idle" =>
              (Req(r).written <=> Req(r).pc \in {"hello_metric", "after", "done"})
        /\ (Req(r).pc # "idle" /\ Req(r).written) => ResponseAsConfigured(r)
        /\ Count(r, "Request") <= 1
        /\ Count(r, "Event") <= 1
        /\ Count(r, "Metric") <= 1

\* a send has failed and /hello has been answered and its request tracked
C7_Witness ==
    /\ ~telemetryClient.nil
    /\ lost
    /\ \E r \in Slots :
          /\ Done(r) /\ MatchesHello(r) /\ Req(r).status = 200
          /\ \A q \in Slots \ {r} : Req(q).pc = "idle"

\* the Request Record the middleware of slot r builds when c.Next() returns
\* at tick t, from the fields of that request alone
OwnRequestRecord(r, t) ==
    [type |-> "Request", Method |-> Req(r).method, Url |-> Req(r).url,
     Duration |-> t - Req(r).start,
     ResponseCode |->
        IF Req(r).status = 200 THEN <<"2", "0", "0">> ELSE <<"4", "0", "4">>,
     Properties |-> [route |-> Req(r).fullPath,
                     user_agent |-> Req(r).userAgent,
                     app_version |-> AppVersion]]

\* C8: with an enabled client and requests interleaved in any way, there are
\* as many Request Records as finished requests, each among the items of its
\* own request; the step that ends a request hands over the record built from
\* that request's own method, URL, status, duration and properties, and
\* touches the items of no other request.
C8_OwnRequestRecord ==
    /\ [](~telemetryClient.nil =>
            \A r \in Slots : Count(r, "Request") = (IF Done(r) THEN 1 ELSE 0))
    /\ [][\A r \in Slots :
            (~telemetryClient.nil /\ Req(r).pc = "after" /\ reqs'[r].pc = "done")
            => /\ tracked'[r] = Append(tracked[r], OwnRequestRecord(r, now))
               /\ \A q \in Slots \ {r} : tracked'[q] = tracked[q]]_vars

\* two requests that differ in method, status and start have both been tracked
C8_Witness ==
    /\ ~telemetryClient.nil
    /\ MaxReqs >= 2
    /\ Done(1) /\ Done(2)
    /\ Req(1).method # Req(2).method
    /\ Req(1).status # Req(2).status
    /\ Req(1).start < Req(2).start
    /\ Count(1, "Request") = 1 /\ Count(2, "Request") = 1

\* the types of the items slot r has handed over, in order
Types(r) == [i \in 1..Len(tracked[r]) |-> tracked[r][i].type]

\* C9: for a /hello request with an enabled client: the middleware takes its
\* start, then the handler its own, then the Event Record is handed over, then
\* the response is written, then the Metric Record is handed over, then the
\* handler returns, and only then the Request Record is built and handed over;
\* its duration is at least the value of the Metric Record.
C9_HelloOrder ==
    ~telemetryClient.nil =>
        \A r \in Slots :
            LET p == Req(r).pc
            IN  /\ p = "hello" => (Types(r) = <<>> /\ ~Req(r).written)
                /\ p = "hello_sleep" =>
                      /\ Types(r) = <<"Event">>
                      /\ ~Req(r).written
                      /\ Req(r).helloStart >= Req(r).start
                /\ p = "hello_metric" =>
                      (Types(r) = <<"Event">> /\ Req(r).written)
                /\ (p = "after" /\ Req(r).fullPath = HelloPath) =>
                      (Types(r) = <<"Event", "Metric">> /\ Req(r).written)
                /\ (p = "done" /\ Req(r).fullPath = HelloPath) =>
                      /\ Types(r) = <<"Event", "Metric", "Request">>
                      /\ Req(r).written
                      /\ tracked[r][3].Duration >= tracked[r][2].Value
                      /\ tracked[r][2].Value >= SleepTicks

\* a /hello request is done whose Request Record covers the metric's interval
C9_Witness ==
    /\ ~telemetryClient.nil
    /\ \E r \in Slots :
          /\ Done(r) /\ Req(r).fullPath = HelloPath
          /\ Len(tracked[r]) = 3
          /\ tracked[r][3].Duration >= tracked[r][2].Value
          /\ tracked[r][2].Value >= 1

====
